---------------------------- MODULE Spec2Model ----------------------------
(***************************************************************************)
(* Go-Live Buddy: the answer streaming and evidence grounding pipeline of  *)
(* backend/agent.py (query_agent_stream, analyze_image_stream,             *)
(* _serialize_sources, _get_focus_marker, _get_focus_coord,                *)
(* _load_frame_image) and the module state of                              *)
(* backend/database.py that get_vector_store reads.                        *)
(*                                                                         *)
(* Scores are kept in units of 1/10000, so that round(score, 3) of to_dict *)
(* is a real conversion.  A Python None is the empty tuple None, a value v *)
(* that may be None is the one-element tuple Some(v).                      *)
(***************************************************************************)
EXTENDS Integers, Sequences, FiniteSets, TLC

VARIABLES
    endpoint,          \* "query" (query_agent_stream) or "image" (analyze_image_stream)
    pinecone_index,    \* database.pinecone_index is set (PINECONE_API_KEY was present)
    google_key,        \* GOOGLE_API_KEY is present in the environment
    namespace,         \* the caller-supplied namespace
    pc,                \* position of the generating coroutine
    out,               \* the chunks yielded so far, in order
    oracle_tokens,     \* what response.response_gen produces, in order
    gen_pos,           \* number of tokens the for loop has taken from response_gen
    source_nodes,      \* response.source_nodes, the oracle's live result set
    evidence_at_query, \* history: the oracle's result set when query() returned
    captured_sources,  \* the local captured_sources
    cited,             \* history: positions (in the argument) of the local diverse
    sources_marker,    \* the local sources_marker (None stands for "")
    video_tasks,       \* the local video_tasks of _get_focus_marker
    results,           \* per task: "pending", "box", "none" or "raise"
    returned,          \* per task: what its _get_focus_coord call met and returned
    coords_map,        \* the local coords_map, as its items in insertion order
    calls,             \* history: the calls made, in order
    progress_queue,    \* main.py: the items of progress_queue, oldest first
    thread,            \* position of run_ingestion in its try / finally
    ingestion,         \* history: how process_ingestion ended
    stream,            \* position of the generator stream_progress
    lines,             \* the lines stream_progress yielded so far, in order
    put_log,           \* history: every item put on progress_queue, in order
    waited             \* time the current progress_queue.get has been blocked

\* the state of a request to /api/chat or /api/analyze-image
agent_vars == <<endpoint, pinecone_index, google_key, namespace, pc, out, oracle_tokens,
                gen_pos, source_nodes, evidence_at_query, captured_sources,
                cited, sources_marker, video_tasks, results, returned, coords_map, calls>>

\* the state of a request to /api/ingest
ingest_vars == <<progress_queue, thread, ingestion, stream, lines, put_log, waited>>

vars == <<agent_vars, ingest_vars>>

----------------------------------------------------------------------------
(* Bounds of the model *)

\* longest token stream of the oracle in Spec
MaxTokens == 2
\* longest evidence list of the oracle in Spec
MaxEvidence == 2
\* longest evidence list given to _serialize_sources in SpecDiv
MaxNodes == 6
\* longest evidence list given to _get_focus_marker in SpecFocus
MaxFocusNodes == 4
\* longest evidence list given to _serialize_sources in SpecOrder
MaxRanked == 4
\* longest evidence list given to _get_focus_marker in SpecTypes
MaxTypedNodes == 3

----------------------------------------------------------------------------
(* Constants of agent.py *)

\* SOURCE_SCORE_THRESHOLD = 0.3, in units of 1/10000
SOURCE_SCORE_THRESHOLD == 3000
MAX_SOURCES == 5
MAX_VIDEO_FRAMES == 3
type_priority == <<"video", "pdf_document", "jira_ticket">>

None == <<>>
Some(v) == <<v>>
Val(o) == o[1]

\* an evidence node (NodeWithScore): its score and the metadata keys the code reads.
\* type is "unset" when the metadata has no "type" key; frame_image_url is the
\* URL's path as its list of segments ("" is <<>>).
Node(s, t, f, u) == [score |-> s, type |-> t, frame_index |-> f, frame_image_url |-> u]

RECURSIVE SeqsUpTo(_, _)
SeqsUpTo(S, n) ==
    IF n = 0 THEN {<<>>}
    ELSE LET shorter == SeqsUpTo(S, n - 1)
         IN  shorter \cup {Append(q, x) : q \in {r \in shorter : Len(r) = n - 1}, x \in S}

Range(q) == {q[i] : i \in DOMAIN q}

----------------------------------------------------------------------------
(* _serialize_sources *)

\* n.score or 0
ScoreOr0(n) == IF n.score = None THEN 0 ELSE Val(n.score)

\* a filter that compares the score as it is displayed, rounded to 3 decimals
RECURSIVE CandidatesFromRounded(_, _)
CandidatesFromRounded(nodes, i) ==
    IF i > Len(nodes) THEN <<>>
    ELSE IF ((ScoreOr0(nodes[i]) + 5) \div 10) * 10 >= SOURCE_SCORE_THRESHOLD
         THEN <<i>> \o CandidatesFromRounded(nodes, i + 1)
         ELSE CandidatesFromRounded(nodes, i + 1)

\* the positions of the candidates, in list order
RECURSIVE CandidatesFrom(_, _)
CandidatesFrom(nodes, i) ==
    IF i > Len(nodes) THEN <<>>
    ELSE IF ScoreOr0(nodes[i]) >= SOURCE_SCORE_THRESHOLD
         THEN <<i>> \o CandidatesFrom(nodes, i + 1)
         ELSE CandidatesFrom(nodes, i + 1)

Candidates(nodes) == CandidatesFrom(nodes, 1)

\* the type without the default of line 43
node_type_no_default(n) == n.type

\* lines 42-43: meta.get("type", "video")
node_type(n) == IF n.type = "unset" THEN "video" ELSE n.type

\* round(float(n.score or 0), 3): to the nearest multiple of 10 (no model score is a tie)
Round3(s) == ((s + 5) \div 10) * 10

to_dict(n) == [score |-> Round3(ScoreOr0(n)), type |-> n.type,
               frame_index |-> n.frame_index, frame_image_url |-> n.frame_image_url]

\* a step 1 that stops at the first candidate
BestByTypeFirstOnly(nodes, cands, k, best) == <<cands[1]>>

\* Step 1: best_by_type as the list of its values in insertion order; the loop
\* stops as soon as it holds len(type_priority) types
RECURSIVE BestByType(_, _, _, _)
BestByType(nodes, cands, k, best) ==
    IF k > Len(cands) THEN best
    ELSE LET t     == node_type(nodes[cands[k]])
             best2 == IF \E j \in DOMAIN best : node_type(nodes[best[j]]) = t
                      THEN best ELSE Append(best, cands[k])
         IN  IF Len(best2) = Len(type_priority) THEN best2
             ELSE BestByType(nodes, cands, k + 1, best2)

\* a fill loop without the MAX_SOURCES test
RECURSIVE FillUncapped(_, _, _)
FillUncapped(cands, k, diverse) ==
    IF k > Len(cands) THEN diverse
    ELSE IF cands[k] \in Range(diverse)
         THEN FillUncapped(cands, k + 1, diverse)
         ELSE FillUncapped(cands, k + 1, Append(diverse, cands[k]))

\* a fill loop that walks the candidates from the last one
RECURSIVE FillFromLast(_, _, _)
FillFromLast(cands, k, diverse) ==
    IF k > Len(cands) \/ Len(diverse) >= MAX_SOURCES THEN diverse
    ELSE IF cands[Len(cands) + 1 - k] \in Range(diverse)
         THEN FillFromLast(cands, k + 1, diverse)
         ELSE FillFromLast(cands, k + 1, Append(diverse, cands[Len(cands) + 1 - k]))

\* Step 2: fill the remaining slots from the candidates, in list order
RECURSIVE Fill(_, _, _)
Fill(cands, k, diverse) ==
    IF k > Len(cands) \/ Len(diverse) >= MAX_SOURCES THEN diverse
    ELSE IF cands[k] \in Range(diverse)
         THEN Fill(cands, k + 1, diverse)
         ELSE Fill(cands, k + 1, Append(diverse, cands[k]))

\* the local diverse, as positions in source_nodes (id(n) is the position)
Diverse(nodes) ==
    LET cands == Candidates(nodes)
    IN  IF cands = <<>> THEN <<>>
        ELSE Fill(cands, 1, BestByType(nodes, cands, 1, <<>>))

\* a marker around whatever was selected, the empty array included
serialize_sources_unguarded(nodes) ==
    LET diverse == Diverse(nodes)
    IN  Some([k \in DOMAIN diverse |-> to_dict(nodes[diverse[k]])])

\* the return value: None stands for "", Some(result) for the marker around the
\* JSON array result (lines 38-40 and 79-83)
serialize_sources(nodes) ==
    LET diverse == Diverse(nodes)
        result  == [k \in DOMAIN diverse |-> to_dict(nodes[diverse[k]])]
    IN  IF Candidates(nodes) = <<>> THEN None
        ELSE IF result = <<>> THEN None
        ELSE Some(result)

----------------------------------------------------------------------------
(* _get_focus_marker *)

\* a search for "/frames/<segment>" that does not ask for the "/" after it
RECURSIVE NsMatchFromLoose(_, _)
NsMatchFromLoose(url, i) ==
    IF i + 1 > Len(url) THEN 0
    ELSE IF url[i] = "frames" /\ url[i + 1] # "" THEN i
         ELSE NsMatchFromLoose(url, i + 1)

\* re.search(r"/frames/([^/]+)/", frame_url): the first segment "frames" that is
\* followed by a non-empty segment and a further "/"; 0 when there is no match
RECURSIVE NsMatchFrom(_, _)
NsMatchFrom(url, i) ==
    IF i + 2 > Len(url) THEN 0
    ELSE IF url[i] = "frames" /\ url[i + 1] # "" THEN i
         ELSE NsMatchFrom(url, i + 1)

\* resolved_ns = ns_match.group(1) if ns_match else namespace
ResolvedNs(n, ns) ==
    LET m == NsMatchFrom(n.frame_image_url, 1)
    IN  IF m # 0 THEN n.frame_image_url[m + 1] ELSE ns

\* fi = int(frame_index); the frame indices of the index are whole numbers
IntOf(f) == Val(f)

\* a scan without the MAX_VIDEO_FRAMES test
RECURSIVE ScanFramesUncapped(_, _, _, _, _)
ScanFramesUncapped(nodes, ns, i, seen_frames, tasks) ==
    IF i > Len(nodes) THEN tasks
    ELSE LET n == nodes[i]
         IN  IF n.type \in {"pdf_document", "jira_ticket"} \/ n.frame_index = None
             THEN ScanFramesUncapped(nodes, ns, i + 1, seen_frames, tasks)
             ELSE IF n.frame_index[1] \in seen_frames
             THEN ScanFramesUncapped(nodes, ns, i + 1, seen_frames, tasks)
             ELSE ScanFramesUncapped(nodes, ns, i + 1, seen_frames \cup {n.frame_index[1]},
                                     Append(tasks, [fi |-> n.frame_index[1], ns |-> "sap-pack",
                                                    node |-> i]))

\* a scan without the seen_frames test
RECURSIVE ScanFramesRepeating(_, _, _, _, _)
ScanFramesRepeating(nodes, ns, i, seen_frames, tasks) ==
    IF i > Len(nodes) THEN tasks
    ELSE LET n == nodes[i]
         IN  IF n.type \in {"pdf_document", "jira_ticket"} \/ n.frame_index = None
             THEN ScanFramesRepeating(nodes, ns, i + 1, seen_frames, tasks)
             ELSE LET rns    == ResolvedNs(n, ns)
                      tasks2 == IF rns # ""
                                THEN Append(tasks, [fi |-> n.frame_index[1], ns |-> rns, node |-> i])
                                ELSE tasks
                  IN  IF Len(tasks2) >= MAX_VIDEO_FRAMES THEN tasks2
                      ELSE ScanFramesRepeating(nodes, ns, i + 1, seen_frames, tasks2)

\* a scan that stops after MAX_VIDEO_FRAMES distinct frames, dispatched or dropped
RECURSIVE ScanFramesCappedOnSeen(_, _, _, _, _)
ScanFramesCappedOnSeen(nodes, ns, i, seen_frames, tasks) ==
    IF i > Len(nodes) THEN tasks
    ELSE LET n == nodes[i]
         IN  IF n.type \in {"pdf_document", "jira_ticket"} \/ n.frame_index = None
             THEN ScanFramesCappedOnSeen(nodes, ns, i + 1, seen_frames, tasks)
             ELSE IF n.frame_index[1] \in seen_frames
             THEN ScanFramesCappedOnSeen(nodes, ns, i + 1, seen_frames, tasks)
             ELSE LET rns    == ResolvedNs(n, ns)
                      seen2  == seen_frames \cup {n.frame_index[1]}
                      tasks2 == IF rns # ""
                                THEN Append(tasks, [fi |-> n.frame_index[1], ns |-> rns, node |-> i])
                                ELSE tasks
                  IN  IF Cardinality(seen2) >= MAX_VIDEO_FRAMES THEN tasks2
                      ELSE ScanFramesCappedOnSeen(nodes, ns, i + 1, seen2, tasks2)

\* a scan that takes the frame index of a node of any type
RECURSIVE ScanFramesAnyType(_, _, _, _, _)
ScanFramesAnyType(nodes, ns, i, seen_frames, tasks) ==
    IF i > Len(nodes) THEN tasks
    ELSE LET n == nodes[i]
         IN  IF n.frame_index = None
             THEN ScanFramesAnyType(nodes, ns, i + 1, seen_frames, tasks)
             ELSE IF n.frame_index[1] \in seen_frames
             THEN ScanFramesAnyType(nodes, ns, i + 1, seen_frames, tasks)
             ELSE LET rns    == ResolvedNs(n, ns)
                      tasks2 == IF rns # ""
                                THEN Append(tasks, [fi |-> n.frame_index[1], ns |-> rns, node |-> i])
                                ELSE tasks
                  IN  IF Len(tasks2) >= MAX_VIDEO_FRAMES THEN tasks2
                      ELSE ScanFramesAnyType(nodes, ns, i + 1,
                                             seen_frames \cup {n.frame_index[1]}, tasks2)

\* the loop of lines 204-222 from position i on
RECURSIVE ScanFrames(_, _, _, _, _)
ScanFrames(nodes, ns, i, seen_frames, tasks) ==
    IF i > Len(nodes) THEN tasks
    ELSE LET n == nodes[i]
         IN  IF n.type \in {"pdf_document", "jira_ticket"}
             THEN ScanFrames(nodes, ns, i + 1, seen_frames, tasks)
             ELSE IF n.frame_index = None
             THEN ScanFrames(nodes, ns, i + 1, seen_frames, tasks)
             ELSE IF IntOf(n.frame_index) \in seen_frames
             THEN ScanFrames(nodes, ns, i + 1, seen_frames, tasks)
             ELSE LET fi     == IntOf(n.frame_index)
                      rns    == ResolvedNs(n, ns)
                      tasks2 == IF rns # "" THEN Append(tasks, [fi |-> fi, ns |-> rns, node |-> i])
                                ELSE tasks
                  IN  IF Len(tasks2) >= MAX_VIDEO_FRAMES THEN tasks2
                      ELSE ScanFrames(nodes, ns, i + 1, seen_frames \cup {fi}, tasks2)

\* the local video_tasks; node is the position of the node the task came from
VideoTasks(nodes, ns) == ScanFrames(nodes, ns, 1, {}, <<>>)

----------------------------------------------------------------------------
(* One grounding call: _load_frame_image and _get_focus_coord *)

\* the keys tested at line 168
REQUIRED_KEYS == {"x_pct", "y_pct", "w_pct", "h_pct", "label"}

\* a JSON object with the five keys
Box(x, y, w, h) == [x_pct |-> x, y_pct |-> y, w_pct |-> w, h_pct |-> h, label |-> "Screen area"]

\* the box the prompt asks for when no element is relevant (line 161)
FallbackBox == Box(10, 10, 80, 80)

\* JSON objects the vision model may answer with: boxes inside and outside the
\* ranges the prompt asks for (lines 156-159), and objects lacking keys
ModelObjects ==
    {FallbackBox, Box(0, 100, 1, 100), Box(150, 10, 80, 80), Box(10, 10, 0, 80),
     [x_pct |-> 10, y_pct |-> 10], [label |-> "Save"]}

\* response.text as its segments: a markdown fence, a JSON object, other words
Fence     == [kind |-> "fence", obj |-> None]
Words     == [kind |-> "words", obj |-> None]
Json(o)   == [kind |-> "json", obj |-> Some(o)]

\* what model.generate_content (line 163) may do: raise, or answer with a text
ModelAnswers ==
    {[status |-> "raises", raw |-> <<>>], [status |-> "text", raw |-> <<>>],
     [status |-> "text", raw |-> <<Words>>]}
    \cup {[status |-> "text", raw |-> r] :
            r \in UNION {{<<Json(o)>>, <<Fence, Json(o), Fence>>, <<Words, Json(o)>>} :
                          o \in ModelObjects}}

\* line 166: re.sub removes the fences, the rest of the text stays
StripFences(raw) == SelectSeq(raw, LAMBDA seg : seg.kind # "fence")

\* line 167: json.loads of the stripped text; None stands for JSONDecodeError
json_loads(raw) == IF Len(raw) = 1 /\ raw[1].kind = "json" THEN raw[1].obj ELSE None

\* what one call meets: the file at frame_path, FRONTEND_URL, the HTTP fetch of
\* lines 115-124 and the vision model
CoordEnvs ==
    [file : {"image", "unreadable", "missing"}, frontend_url : {"", "app.example"},
     fetch : {"image", "fails"}, answer : ModelAnswers]

\* _load_frame_image: "img", "none", or "raise" when PIL.Image.open of line 98,
\* which no try encloses, rejects the file
load_frame_image(e) ==
    IF e.file # "missing"
    THEN IF e.file = "image" THEN "img" ELSE "raise"
    ELSE IF e.frontend_url = "" THEN "none"
    ELSE IF e.fetch = "image" THEN "img" ELSE "none"

\* _get_focus_coord: raised tells that the call raised, value is what it returned
get_focus_coord(e, key) ==
    LET img    == load_frame_image(e)
        parsed == json_loads(StripFences(e.answer.raw))
    IN  IF img = "raise" THEN [raised |-> TRUE, value |-> None]
        ELSE IF img = "none" THEN [raised |-> FALSE, value |-> None]
        ELSE IF ~key THEN [raised |-> FALSE, value |-> None]
        ELSE IF e.answer.status = "raises" THEN [raised |-> FALSE, value |-> None]
        ELSE IF parsed = None THEN [raised |-> FALSE, value |-> None]
        ELSE IF REQUIRED_KEYS \subseteq DOMAIN Val(parsed)
        THEN [raised |-> FALSE, value |-> parsed]
        ELSE [raised |-> FALSE, value |-> None]

\* the entry of results for a finished call
Kind(r) == IF r.raised THEN "raise" ELSE IF r.value = None THEN "none" ELSE "box"

\* coords_map after the loop of lines 240-245: the tasks whose call returned a box;
\* ret[i] is what the call of task i returned
RECURSIVE MergeCoords(_, _, _)
MergeCoords(tasks, ret, i) ==
    IF i > Len(tasks) THEN <<>>
    ELSE IF ret[i] # None
         THEN <<[frame_key |-> tasks[i].fi, coord |-> Val(ret[i])]>> \o MergeCoords(tasks, ret, i + 1)
         ELSE MergeCoords(tasks, ret, i + 1)

----------------------------------------------------------------------------
(* The chunks of the stream *)

TokenChunk(t)   == [kind |-> "token", body |-> <<t>>]
TextChunk(t)    == [kind |-> "text", body |-> <<t>>]
SourcesChunk(c) == [kind |-> "sources", body |-> c]
FocusChunk(m)   == [kind |-> "focus", body |-> m]
\* an error chunk without the prefix
ErrorChunkBare(ep) == [kind |-> "error", body |-> <<"Unable to query knowledge base.">>]

\* lines 315 and 394: the chunk of the outer except
ErrorChunk(ep)  == [kind |-> "error",
                    body |-> <<"[System Error]",
                               IF ep = "query" THEN "Unable to query knowledge base."
                               ELSE "Vision analysis failed.">>]

\* list(response.source_nodes or []), [] when reading the attribute raises
Capture(sn) == IF sn.state = "list" THEN sn.nodes ELSE <<>>

\* the argument of _serialize_sources (lines 294 and 373)
SourcesArg == captured_sources
\* the result set read again after the token stream was drained
FocusArgLive == Capture(source_nodes)

\* only the captured nodes that clear the relevance threshold
FocusArgQualifying ==
    SelectSeq(captured_sources,
              LAMBDA n : n.score # None /\ Val(n.score) >= SOURCE_SCORE_THRESHOLD)

\* the argument of _get_focus_marker (lines 306 and 385)
FocusArg == captured_sources

\* what the oracle's result set may be once the token stream is exhausted
AfterDrain(sn) ==
    {sn, [state |-> "invalid", nodes |-> <<>>]}
    \cup (IF sn.state = "list" /\ sn.nodes # <<>>
          THEN {[state |-> "list", nodes |-> Tail(sn.nodes)]} ELSE {})

\* no request to /api/ingest is being served
IngestNotStarted ==
    /\ progress_queue = <<>>
    /\ thread = "not_started"
    /\ ingestion = "not_started"
    /\ stream = "not_started"
    /\ lines = <<>>
    /\ put_log = <<>>
    /\ waited = 0

\* the handler of the outer try: one error chunk, then the generator returns
Abort ==
    /\ out' = Append(out, ErrorChunk(endpoint))
    /\ pc' = "done"

----------------------------------------------------------------------------
(* analyze_image_stream, lines 319-354 *)

\* lines 321-326: the upload does not decode; one chunk, then return
ImgDecodeFails ==
    /\ pc = "img_decode"
    /\ out' = Append(out, TextChunk("Error decoding image"))
    /\ pc' = "done"
    /\ UNCHANGED ingest_vars
    /\ UNCHANGED <<endpoint, pinecone_index, google_key, namespace, oracle_tokens, gen_pos,
                   source_nodes, evidence_at_query, captured_sources, cited,
                   sources_marker, video_tasks, results, returned, coords_map, calls>>

ImgDecode ==
    /\ pc = "img_decode"
    /\ pc' = "img_key"
    /\ UNCHANGED ingest_vars
    /\ UNCHANGED <<endpoint, pinecone_index, google_key, namespace, out, oracle_tokens,
                   gen_pos, source_nodes, evidence_at_query, captured_sources, cited,
                   sources_marker, video_tasks, results, returned, coords_map, calls>>

\* lines 329-337: no key raises ValueError; otherwise the first banner is yielded
ImgKey ==
    /\ pc = "img_key"
    /\ IF google_key
       THEN /\ out' = Append(out, TextChunk("Vision Analysis Initiated"))
            /\ pc' = "img_vision"
       ELSE Abort
    /\ UNCHANGED ingest_vars
    /\ UNCHANGED <<endpoint, pinecone_index, google_key, namespace, oracle_tokens, gen_pos,
                   source_nodes, evidence_at_query, captured_sources, cited,
                   sources_marker, video_tasks, results, returned, coords_map, calls>>

\* lines 343-347: the vision call returns and the findings are yielded, or it raises
ImgVision ==
    /\ pc = "img_vision"
    /\ \E ok \in BOOLEAN :
          IF ok
          THEN /\ out' = Append(out, TextChunk("Findings"))
               /\ pc' = "query"
          ELSE Abort
    /\ UNCHANGED ingest_vars
    /\ UNCHANGED <<endpoint, pinecone_index, google_key, namespace, oracle_tokens, gen_pos,
                   source_nodes, evidence_at_query, captured_sources, cited,
                   sources_marker, video_tasks, results, returned, coords_map, calls>>

----------------------------------------------------------------------------
(* query_agent_stream, lines 259-315 (analyze_image_stream, lines 356-394) *)

Tokens == {"a", "b"}

\* the evidence nodes of Spec: a qualifying and a non-qualifying score for a video
\* frame with a frame URL, a video frame without one, and a PDF chunk
StreamNodes ==
    {Node(Some(s), "unset", Some(1), <<"frames", "crm-pack", "1.jpg">>) : s \in {2996, 9000}}
    \cup {Node(Some(s), "unset", Some(2), <<>>) : s \in {2996, 9000}}
    \cup {Node(Some(s), "pdf_document", None, <<>>) : s \in {2996, 9000}}

\* what query_engine.query can return: a token stream and a result set
Responses ==
    [tokens : SeqsUpTo(Tokens, MaxTokens),
     sn : {[state |-> st, nodes |-> <<>>] : st \in {"none", "invalid"}}
          \cup {[state |-> "list", nodes |-> q] : q \in SeqsUpTo(StreamNodes, MaxEvidence)}]

\* line 260: get_vector_store raises without an index (database.py 29-30)
GetVectorStoreRaises ==
    /\ pc = "query"
    /\ ~pinecone_index
    /\ Abort
    /\ UNCHANGED ingest_vars
    /\ UNCHANGED <<endpoint, pinecone_index, google_key, namespace, oracle_tokens, gen_pos,
                   source_nodes, evidence_at_query, captured_sources, cited,
                   sources_marker, video_tasks, results, returned, coords_map, calls>>

\* lines 261-280: the oracle is unreachable, query_engine.query raises
QueryRaises ==
    /\ pc = "query"
    /\ pinecone_index
    /\ Abort
    /\ UNCHANGED ingest_vars
    /\ UNCHANGED <<endpoint, pinecone_index, google_key, namespace, oracle_tokens, gen_pos,
                   source_nodes, evidence_at_query, captured_sources, cited,
                   sources_marker, video_tasks, results, returned, coords_map, calls>>

\* lines 260-280: the oracle answers
Query ==
    /\ pc = "query"
    /\ pinecone_index
    /\ \E r \in Responses :
          /\ oracle_tokens' = r.tokens
          /\ source_nodes' = r.sn
          /\ evidence_at_query' = r.sn
    /\ gen_pos' = 0
    /\ pc' = "capture"
    /\ UNCHANGED ingest_vars
    /\ UNCHANGED <<endpoint, pinecone_index, google_key, namespace, out, captured_sources,
                   cited, sources_marker, video_tasks, results, returned, coords_map, calls>>

\* lines 283-286
CaptureSources ==
    /\ pc = "capture"
    /\ captured_sources' = Capture(source_nodes)
    /\ pc' = "relay"
    /\ UNCHANGED ingest_vars
    /\ UNCHANGED <<endpoint, pinecone_index, google_key, namespace, out, oracle_tokens,
                   gen_pos, source_nodes, evidence_at_query, cited, sources_marker,
                   video_tasks, results, returned, coords_map, calls>>

\* a relay that skips a token
RelayChunksSkipping(t) == IF t = "b" THEN <<>> ELSE <<TokenChunk(t)>>

\* the chunks yielded for the next token of response_gen (lines 288-289)
RelayChunks(t) == <<TokenChunk(t)>>

\* lines 288-290: one iteration of the for loop
RelayToken ==
    /\ pc = "relay"
    /\ gen_pos < Len(oracle_tokens)
    /\ out' = out \o RelayChunks(oracle_tokens[gen_pos + 1])
    /\ gen_pos' = gen_pos + 1
    /\ UNCHANGED ingest_vars
    /\ UNCHANGED <<endpoint, pinecone_index, google_key, namespace, pc, oracle_tokens,
                   source_nodes, evidence_at_query, captured_sources, cited,
                   sources_marker, video_tasks, results, returned, coords_map, calls>>

\* response_gen is exhausted: the loop ends; the oracle may now drop its result set
Exhausted ==
    /\ pc = "relay"
    /\ gen_pos = Len(oracle_tokens)
    /\ source_nodes' \in AfterDrain(source_nodes)
    /\ pc' = "sources"
    /\ UNCHANGED ingest_vars
    /\ UNCHANGED <<endpoint, pinecone_index, google_key, namespace, out, oracle_tokens,
                   gen_pos, evidence_at_query, captured_sources, cited, sources_marker,
                   video_tasks, results, returned, coords_map, calls>>

\* response_gen raises instead of producing its next token: the outer except
TokenStreamFails ==
    /\ pc = "relay"
    /\ Abort
    /\ UNCHANGED ingest_vars
    /\ UNCHANGED <<endpoint, pinecone_index, google_key, namespace, oracle_tokens, gen_pos,
                   source_nodes, evidence_at_query, captured_sources, cited,
                   sources_marker, video_tasks, results, returned, coords_map, calls>>

\* lines 293-296: _serialize_sources returns; a non-empty marker is yielded
SourcesMarker ==
    /\ pc = "sources"
    /\ calls' = Append(calls, [fn |-> "_serialize_sources", arg |-> SourcesArg,
                                raised |-> FALSE])
    /\ cited' = Diverse(SourcesArg)
    /\ sources_marker' = serialize_sources(SourcesArg)
    /\ out' = IF sources_marker' # None THEN Append(out, SourcesChunk(Val(sources_marker')))
              ELSE out
    /\ pc' = "focus"
    /\ UNCHANGED ingest_vars
    /\ UNCHANGED <<endpoint, pinecone_index, google_key, namespace, oracle_tokens, gen_pos,
                   source_nodes, evidence_at_query, captured_sources, video_tasks,
                   results, returned, coords_map>>

\* a failure of _serialize_sources that reaches the outer except
SourcesRaisesAborting ==
    /\ pc = "sources"
    /\ calls' = Append(calls, [fn |-> "_serialize_sources", arg |-> SourcesArg,
                                raised |-> TRUE])
    /\ Abort
    /\ UNCHANGED ingest_vars
    /\ UNCHANGED <<endpoint, pinecone_index, google_key, namespace, oracle_tokens, gen_pos,
                   source_nodes, evidence_at_query, captured_sources, cited,
                   sources_marker, video_tasks, results, returned, coords_map>>

\* lines 297-298: _serialize_sources raises; logged, no marker
SourcesRaises ==
    /\ pc = "sources"
    /\ calls' = Append(calls, [fn |-> "_serialize_sources", arg |-> SourcesArg,
                                raised |-> TRUE])
    /\ pc' = "focus"
    /\ UNCHANGED ingest_vars
    /\ UNCHANGED <<endpoint, pinecone_index, google_key, namespace, out, oracle_tokens,
                   gen_pos, source_nodes, evidence_at_query, captured_sources, cited,
                   sources_marker, video_tasks, results, returned, coords_map>>

\* _get_focus_marker up to line 226 and the submission of the tasks by pool.map
\* (line 240); with no task the function returns "" and nothing is yielded
FocusScan ==
    /\ pc = "focus"
    /\ LET arg   == FocusArg
           tasks == IF arg = <<>> THEN <<>> ELSE VideoTasks(arg, namespace)
       IN  /\ video_tasks' = tasks
           /\ results' = [i \in DOMAIN tasks |-> "pending"]
           /\ returned' = [i \in DOMAIN tasks |-> None]
           /\ calls' = calls
                       \o <<[fn |-> "_get_focus_marker", arg |-> arg, ns |-> namespace,
                              raised |-> FALSE]>>
                       \o [i \in DOMAIN tasks |->
                             [fn |-> "_get_focus_coord", ns |-> tasks[i].ns, fi |-> tasks[i].fi]]
           /\ pc' = IF tasks = <<>> THEN "done" ELSE "pool"
    /\ UNCHANGED ingest_vars
    /\ UNCHANGED <<endpoint, pinecone_index, google_key, namespace, out, oracle_tokens,
                   gen_pos, source_nodes, evidence_at_query, captured_sources, cited,
                   sources_marker, coords_map>>

\* lines 310-311: the call raises before any task is submitted; logged, no marker
FocusRaises ==
    /\ pc = "focus"
    /\ calls' = Append(calls, [fn |-> "_get_focus_marker", arg |-> FocusArg, ns |-> namespace,
                                raised |-> TRUE])
    /\ pc' = "done"
    /\ UNCHANGED ingest_vars
    /\ UNCHANGED <<endpoint, pinecone_index, google_key, namespace, out, oracle_tokens,
                   gen_pos, source_nodes, evidence_at_query, captured_sources, cited,
                   sources_marker, video_tasks, results, returned, coords_map>>

\* the calls a request of Spec meets: the frame is on disk and the model answers
\* with the fallback box, the frame is nowhere to be fetched, the file is no image
CallEnvs ==
    {[file |-> "image", frontend_url |-> "app.example", fetch |-> "fails",
      answer |-> [status |-> "text", raw |-> <<Json(FallbackBox)>>]],
     [file |-> "missing", frontend_url |-> "app.example", fetch |-> "fails",
      answer |-> [status |-> "raises", raw |-> <<>>]],
     [file |-> "unreadable", frontend_url |-> "app.example", fetch |-> "fails",
      answer |-> [status |-> "raises", raw |-> <<>>]]}

\* one worker's _call returns (lines 233-236) after meeting an environment of envs;
\* the workers run on whether or not the awaiting coroutine was cancelled
Grounding(envs) ==
    /\ pc \in {"pool", "cancelling"}
    /\ \E i \in DOMAIN results, e \in envs :
          LET r == get_focus_coord(e, google_key)
          IN  /\ results[i] = "pending"
              /\ results' = [results EXCEPT ![i] = Kind(r)]
              /\ returned' = [returned EXCEPT ![i] = Some([env |-> e, value |-> r.value])]
    /\ UNCHANGED ingest_vars
    /\ UNCHANGED <<endpoint, pinecone_index, google_key, namespace, pc, out, oracle_tokens,
                   gen_pos, source_nodes, evidence_at_query, captured_sources, cited,
                   sources_marker, video_tasks, coords_map, calls>>

GroundingReturns == Grounding(CallEnvs)

\* a focus marker yielded entry by entry
FocusChunksInParts(m) == [i \in DOMAIN m |-> FocusChunk(<<m[i]>>)]

\* the chunks yielded for the focus marker (lines 308-309)
FocusChunks(m) == IF m # <<>> THEN <<FocusChunk(m)>> ELSE <<>>

\* lines 239-252 and 308-311: the with block ends when every worker has returned;
\* a call that raised makes pool.map raise, which the caller logs
FocusJoin ==
    /\ pc = "pool"
    /\ \A i \in DOMAIN results : results[i] # "pending"
    /\ IF \E i \in DOMAIN results : results[i] = "raise"
       THEN UNCHANGED <<coords_map, out>>
       ELSE /\ coords_map' = MergeCoords(video_tasks,
                                         [i \in DOMAIN returned |-> Val(returned[i]).value], 1)
            /\ out' = out \o FocusChunks(coords_map')
    /\ pc' = "done"
    /\ UNCHANGED ingest_vars
    /\ UNCHANGED <<endpoint, pinecone_index, google_key, namespace, oracle_tokens, gen_pos,
                   source_nodes, evidence_at_query, captured_sources, cited,
                   sources_marker, video_tasks, results, returned, calls>>

----------------------------------------------------------------------------
(* Spec: one request on either endpoint *)

NoResponse == [state |-> "none", nodes |-> <<>>]

Init ==
    /\ IngestNotStarted
    /\ endpoint \in {"query", "image"}
    /\ pinecone_index \in BOOLEAN
    /\ google_key \in BOOLEAN
    /\ namespace \in {"", "sap-pack"}
    /\ pc = IF endpoint = "query" THEN "query" ELSE "img_decode"
    /\ out = <<>>
    /\ oracle_tokens = <<>>
    /\ gen_pos = 0
    /\ source_nodes = NoResponse
    /\ evidence_at_query = NoResponse
    /\ captured_sources = <<>>
    /\ cited = <<>>
    /\ sources_marker = None
    /\ video_tasks = <<>>
    /\ results = <<>>
    /\ returned = <<>>
    /\ coords_map = <<>>
    /\ calls = <<>>

Next ==
    \/ ImgDecodeFails
    \/ ImgDecode
    \/ ImgKey
    \/ ImgVision
    \/ GetVectorStoreRaises
    \/ QueryRaises
    \/ Query
    \/ CaptureSources
    \/ RelayToken
    \/ Exhausted
    \/ TokenStreamFails
    \/ SourcesMarker
    \/ SourcesRaises
    \/ FocusScan
    \/ FocusRaises
    \/ GroundingReturns
    \/ FocusJoin

Spec == Init /\ [][Next]_vars

----------------------------------------------------------------------------
(* Properties of the stream (Spec) *)

RECURSIVE TokenTexts(_)
TokenTexts(chunks) ==
    IF chunks = <<>> THEN <<>>
    ELSE IF Head(chunks).kind = "token"
         THEN <<Head(chunks).body[1]>> \o TokenTexts(Tail(chunks))
         ELSE TokenTexts(Tail(chunks))

KindCount(k) == Cardinality({i \in DOMAIN out : out[i].kind = k})
Called(fn) == \E i \in DOMAIN calls : calls[i].fn = fn
\* the coroutine is past the for loop over response_gen, which ended normally
Drained == pc \in {"sources", "focus", "pool"} \/ (pc = "done" /\ calls # <<>>)
\* the evidence list the oracle held when query() returned
EvidenceBeforeDrain ==
    IF evidence_at_query.state = "list" THEN evidence_at_query.nodes ELSE <<>>

\* C1: the token chunks emitted so far are exactly the tokens the loop has taken
\* from the oracle's stream, in order (so a prefix of the oracle's sequence), and
\* once the stream is exhausted they are the whole sequence.
C1_TokensRelayedInOrder ==
    /\ gen_pos <= Len(oracle_tokens)
    /\ TokenTexts(out) = SubSeq(oracle_tokens, 1, gen_pos)
    /\ Drained => TokenTexts(out) = oracle_tokens

C1_Witness ==
    /\ pc = "sources"
    /\ Len(oracle_tokens) >= 2
    /\ oracle_tokens[1] # oracle_tokens[2]
    /\ TokenTexts(out) = oracle_tokens

\* C2: a marker is followed by nothing but the focus marker after the sources
\* marker: at most one of each, sources first, no token (or other) chunk after a
\* marker; and the focus chunk carries the whole map of the finished pool.
C2_StreamShape ==
    /\ \A i, j \in DOMAIN out :
          (i < j /\ out[i].kind \in {"sources", "focus"})
             => (out[i].kind = "sources" /\ out[j].kind = "focus")
    /\ \A i \in DOMAIN out :
          out[i].kind = "focus"
             => /\ \A t \in DOMAIN results : results[t] # "pending"
                /\ {out[i].body[k].frame_key : k \in DOMAIN out[i].body}
                     = {video_tasks[t].fi : t \in {u \in DOMAIN results : results[u] = "box"}}

C2_Witness ==
    /\ pc = "done"
    /\ Len(out) >= 3
    /\ out[Len(out) - 2].kind = "token"
    /\ out[Len(out) - 1].kind = "sources"
    /\ out[Len(out)].kind = "focus"
    /\ Len(out[Len(out)].body) >= 2

\* C3: the snapshot is taken before the first token is read, and both
\* _serialize_sources and _get_focus_marker are given the evidence list as it was
\* when the oracle answered, whatever the oracle did to its result set afterwards.
C3_SnapshotBeforeDrain ==
    /\ pc = "relay" => captured_sources = EvidenceBeforeDrain
    /\ \A i \in DOMAIN calls :
          calls[i].fn \in {"_serialize_sources", "_get_focus_marker"}
             => calls[i].arg = EvidenceBeforeDrain

C3_Witness ==
    /\ pc = "done"
    /\ EvidenceBeforeDrain # <<>>
    /\ source_nodes # evidence_at_query
    /\ KindCount("sources") = 1
    /\ KindCount("focus") = 1

\* C4: when step 1 of query_agent_stream fails, the stream is one chunk that
\* starts with [System Error], and the coroutine has finished.
C4_Step1FailureIsOneErrorChunk ==
    [][(endpoint = "query" /\ pc = "query" /\ pc' # "capture")
          => /\ pc' = "done"
             /\ Len(out') = 1
             /\ out'[1].kind = "error"
             /\ out'[1].body[1] = "[System Error]"]_vars

C4_Witness ==
    /\ endpoint = "query"
    /\ ~pinecone_index
    /\ pc = "done"
    /\ Len(out) = 1
    /\ out[1].body[1] = "[System Error]"

\* C5: once the enrichment steps have begun no error chunk is emitted; a
\* raising _serialize_sources leads on to the focus step, _get_focus_marker is
\* still called, and its non-empty map is still emitted.
C5_EnrichmentFailureNeverAborts ==
    /\ calls # <<>> => KindCount("error") = 0
    /\ Called("_serialize_sources") => pc \in {"focus", "pool", "done"}
    /\ (pc = "done" /\ calls # <<>>) => Called("_get_focus_marker")
    /\ (pc = "done" /\ results # <<>> /\ (\A t \in DOMAIN results : results[t] # "raise")
          /\ (\E u \in DOMAIN results : results[u] = "box"))
          => KindCount("focus") = 1

C5_Witness ==
    /\ pc = "done"
    /\ \E i \in DOMAIN calls : calls[i].fn = "_serialize_sources" /\ calls[i].raised
    /\ KindCount("token") >= 1
    /\ KindCount("focus") = 1

\* C10: with zero evidence nodes from the oracle the stream has no sources
\* marker and no focus marker, and _get_focus_coord is never called.
C10_NoEvidenceNoMarkers ==
    EvidenceBeforeDrain = <<>>
       => /\ KindCount("sources") = 0
          /\ KindCount("focus") = 0
          /\ ~Called("_get_focus_coord")

C10_Witness ==
    /\ pc = "done"
    /\ evidence_at_query = [state |-> "list", nodes |-> <<>>]
    /\ KindCount("token") >= 1
    /\ Called("_serialize_sources")
    /\ Called("_get_focus_marker")
    /\ \A i \in DOMAIN out : out[i].kind = "token"

----------------------------------------------------------------------------
(* SpecDiv: _serialize_sources on the evidence lists of a retrieval *)

\* the evidence lists the retriever delivers: at most n nodes of S, best score first
RECURSIVE RankedLists(_, _)
RankedLists(S, n) ==
    IF n = 0 THEN {<<>>}
    ELSE LET shorter == RankedLists(S, n - 1)
         IN  shorter \cup
             {Append(qx[1], qx[2]) :
                qx \in {rx \in shorter \X S :
                          /\ Len(rx[1]) = n - 1
                          /\ rx[1] # <<>> => ScoreOr0(rx[2]) <= ScoreOr0(rx[1][Len(rx[1])])}}

DivNodes ==
    {Node(s, t, None, <<>>) :
       s \in {None, Some(2996), Some(3000)},
       t \in {"unset", "video", "pdf_document", "jira_ticket"}}

\* the coroutine at line 293, after an empty token stream, holding the list nodes
AtSources(nodes) ==
    /\ IngestNotStarted
    /\ endpoint = "query"
    /\ pinecone_index = TRUE
    /\ google_key = TRUE
    /\ out = <<>>
    /\ oracle_tokens = <<>>
    /\ gen_pos = 0
    /\ source_nodes = [state |-> "list", nodes |-> nodes]
    /\ evidence_at_query = [state |-> "list", nodes |-> nodes]
    /\ captured_sources = nodes
    /\ cited = <<>>
    /\ sources_marker = None
    /\ video_tasks = <<>>
    /\ results = <<>>
    /\ returned = <<>>
    /\ coords_map = <<>>
    /\ calls = <<>>

InitDiv ==
    /\ pc = "sources"
    /\ namespace = "sap-pack"
    /\ \E nodes \in RankedLists(DivNodes, MaxNodes) : AtSources(nodes)

NextDiv == SourcesMarker

SpecDiv == InitDiv /\ [][NextDiv]_vars

----------------------------------------------------------------------------
(* Properties of _serialize_sources (SpecDiv) *)

\* the nodes of the argument that clear the threshold
Qualifying == {i \in DOMAIN captured_sources :
                 captured_sources[i].score # None
                 /\ Val(captured_sources[i].score) >= SOURCE_SCORE_THRESHOLD}
\* the array of the emitted sources marker (empty when there is none)
EmittedCitations ==
    IF \E i \in DOMAIN out : out[i].kind = "sources"
    THEN out[CHOOSE i \in DOMAIN out : out[i].kind = "sources"].body
    ELSE <<>>
TypeOrVideo(i) ==
    IF captured_sources[i].type = "unset" THEN "video" ELSE captured_sources[i].type

\* C6: every emitted citation is the projection of a node whose score is at
\* least 0.3; nodes below 0.3 or without a score are not cited.
C6_CitationsClearThreshold ==
    /\ Len(EmittedCitations) = Len(cited)
    /\ \A k \in DOMAIN cited :
          /\ cited[k] \in Qualifying
          /\ EmittedCitations[k].score >= SOURCE_SCORE_THRESHOLD
          /\ EmittedCitations[k].type = captured_sources[cited[k]].type

C6_Witness ==
    /\ pc = "focus"
    /\ Len(captured_sources) = 3
    /\ captured_sources[1].score = Some(3000)
    /\ captured_sources[2].score = Some(2996)
    /\ captured_sources[3].score = None
    /\ cited = <<1>>
    /\ Len(EmittedCitations) = 1

\* C7: at most 5 citations, at most as many as there are qualifying nodes, and
\* no node cited twice.
C7_CitationCountBounded ==
    /\ Len(EmittedCitations) = Len(cited)
    /\ Len(cited) <= 5
    /\ Len(cited) <= Cardinality(Qualifying)
    /\ \A j, k \in DOMAIN cited : j # k => cited[j] # cited[k]

C7_Witness ==
    /\ pc = "focus"
    /\ Cardinality(Qualifying) = 6
    /\ Len(EmittedCitations) = 5

\* C8: when a video, a pdf_document and a jira_ticket node all clear the
\* threshold, the citations include at least one node of each of the three types.
C8_OnePerTypeWhenAllQualify ==
    (pc = "focus" /\ \A t \in {"video", "pdf_document", "jira_ticket"} :
                        \E i \in Qualifying : TypeOrVideo(i) = t)
       => \A t \in {"video", "pdf_document", "jira_ticket"} :
             \E k \in DOMAIN EmittedCitations :
                /\ (IF EmittedCitations[k].type = "unset" THEN "video"
                    ELSE EmittedCitations[k].type) = t
                /\ TypeOrVideo(cited[k]) = t

C8_Witness ==
    /\ pc = "focus"
    /\ Cardinality(Qualifying) = 6
    /\ \A i \in 1..4 : TypeOrVideo(i) = "video"
    /\ TypeOrVideo(5) = "pdf_document"
    /\ TypeOrVideo(6) = "jira_ticket"
    /\ cited = <<1, 5, 6, 2, 3>>

----------------------------------------------------------------------------
(* SpecFocus: _get_focus_marker on evidence lists with many frames *)

\* video frames with a frame URL (one frame index more than MAX_VIDEO_FRAMES) and
\* a video frame without one
FocusNodes ==
    {Node(Some(9000), "unset", Some(f), <<"frames", "crm-pack", "1.jpg">>) :
       f \in 1..(MAX_VIDEO_FRAMES + 1)}
    \cup {Node(Some(9000), "video", Some(1), <<>>)}

\* the coroutine at line 301: the tokens (none) are relayed and _serialize_sources
\* has returned for the list nodes
InitFocus ==
    /\ IngestNotStarted
    /\ pc = "focus"
    /\ endpoint = "query"
    /\ pinecone_index = TRUE
    /\ google_key = TRUE
    /\ namespace \in {"", "sap-pack"}
    /\ oracle_tokens = <<>>
    /\ gen_pos = 0
    /\ \E nodes \in SeqsUpTo(FocusNodes, MaxFocusNodes) :
          /\ source_nodes = [state |-> "list", nodes |-> nodes]
          /\ evidence_at_query = [state |-> "list", nodes |-> nodes]
          /\ captured_sources = nodes
          /\ cited = Diverse(nodes)
          /\ sources_marker = serialize_sources(nodes)
          /\ out = IF sources_marker # None THEN <<SourcesChunk(Val(sources_marker))>>
                   ELSE <<>>
          /\ calls = <<[fn |-> "_serialize_sources", arg |-> nodes, raised |-> FALSE]>>
    /\ video_tasks = <<>>
    /\ results = <<>>
    /\ returned = <<>>
    /\ coords_map = <<>>

NextFocus ==
    \/ FocusScan
    \/ FocusRaises
    \/ GroundingReturns
    \/ FocusJoin

SpecFocus == InitFocus /\ [][NextFocus]_vars

\* the map of the emitted focus marker (empty when there is none)
EmittedFocusMap ==
    IF \E i \in DOMAIN out : out[i].kind = "focus"
    THEN out[CHOOSE i \in DOMAIN out : out[i].kind = "focus"].body
    ELSE <<>>

\* C9: the emitted FocusMap never has more than 3 entries (nor does the task
\* list it is built from).
C9_FocusMapAtMostThree ==
    /\ Len(EmittedFocusMap) <= 3
    /\ Len(coords_map) <= 3
    /\ Cardinality({i \in DOMAIN calls : calls[i].fn = "_get_focus_coord"}) <= 3

C9_Witness ==
    /\ pc = "done"
    /\ Cardinality({captured_sources[i].frame_index : i \in DOMAIN captured_sources}) = 4
    /\ \A i \in DOMAIN captured_sources :
          captured_sources[i].type = "unset" /\ captured_sources[i].frame_index # None
    /\ Len(EmittedFocusMap) = 3

----------------------------------------------------------------------------
(* The grounding calls of one request (SpecFocus) *)

\* the frames of the tasks whose own call produced a box
BoxFrames == {video_tasks[t].fi : t \in {u \in DOMAIN results : results[u] = "box"}}

\* the keys of the emitted FocusMap
EmittedKeys == {EmittedFocusMap[i].frame_key : i \in DOMAIN EmittedFocusMap}

\* C11: once the grounding calls of a request have all come back, the emitted
\* FocusMap has an entry for exactly the dispatched frames whose own call
\* produced a box, whatever the calls for the other frames did (returned none,
\* raised); so the successful subset is emitted when other frames fail.
C11_FramesAreIndependent ==
    (pc = "done" /\ video_tasks # <<>>) => EmittedKeys = BoxFrames

\* one call produced a box, another raised, and the request is over
C11_Witness ==
    /\ pc = "done"
    /\ \E t, u \in DOMAIN results : results[t] = "box" /\ results[u] = "raise"

----------------------------------------------------------------------------
(* SpecCoord: one grounding call in every environment *)

\* what frame_image_url may hold in the index
FrameUrls ==
    {<<>>, <<"frames", "crm-pack", "1.jpg">>, <<"frames", "1.jpg">>,
     <<"static", "frames", "sap-pack", "1.jpg">>, <<"img", "1.jpg">>}

\* one video frame under each of the URLs
CoordNodes == {Node(Some(9000), "unset", Some(1), u) : u \in FrameUrls}

\* the coroutine at line 301 with one node of evidence
InitCoord ==
    /\ IngestNotStarted
    /\ pc = "focus"
    /\ endpoint = "query"
    /\ pinecone_index = TRUE
    /\ google_key \in BOOLEAN
    /\ namespace \in {"", "sap-pack"}
    /\ oracle_tokens = <<>>
    /\ gen_pos = 0
    /\ \E n \in CoordNodes :
          /\ source_nodes = [state |-> "list", nodes |-> <<n>>]
          /\ evidence_at_query = [state |-> "list", nodes |-> <<n>>]
          /\ captured_sources = <<n>>
          /\ cited = Diverse(<<n>>)
          /\ sources_marker = serialize_sources(<<n>>)
          /\ out = IF sources_marker # None THEN <<SourcesChunk(Val(sources_marker))>>
                   ELSE <<>>
          /\ calls = <<[fn |-> "_serialize_sources", arg |-> <<n>>, raised |-> FALSE]>>
    /\ video_tasks = <<>>
    /\ results = <<>>
    /\ returned = <<>>
    /\ coords_map = <<>>

\* the call meets any environment
GroundingCall == Grounding(CoordEnvs)

NextCoord ==
    \/ FocusScan
    \/ GroundingCall
    \/ FocusJoin

SpecCoord == InitCoord /\ [][NextCoord]_vars

\* the failures of a grounding call: the frame image is missing or unreadable in
\* the local store, there is no remote base URL or the fetch fails, the model
\* credential is missing, the model call fails, the output (markdown fences
\* aside) is not just a JSON object, the JSON lacks one of the five fields
CallFailed(e) ==
    \/ e.file = "unreadable"
    \/ e.file = "missing" /\ (e.frontend_url = "" \/ e.fetch = "fails")
    \/ ~google_key
    \/ e.answer.status = "raises"
    \/ ~(\E seg \in Range(e.answer.raw) : seg.kind = "json")
    \/ \E seg \in Range(e.answer.raw) : seg.kind = "words"
    \/ \E seg \in Range(e.answer.raw) :
          seg.kind = "json" /\ ~(REQUIRED_KEYS \subseteq DOMAIN Val(seg.obj))

\* C12: a grounding call never raises to its caller, and each of its failures
\* (missing or unreadable local image, no remote base URL, network error, missing
\* credential, model failure, non-JSON output, JSON without the five fields)
\* makes it return none.
C12_GroundingNeverRaises ==
    \A i \in DOMAIN results :
       /\ results[i] # "raise"
       /\ (returned[i] # None /\ CallFailed(Val(returned[i]).env)) => results[i] = "none"

\* a call that found a local file which is no image has come back
C12_Witness ==
    \E i \in DOMAIN returned :
       returned[i] # None /\ Val(returned[i]).env.file = "unreadable"

\* C13: every coordinate of the emitted FocusMap has x_pct and y_pct in 0..100
\* and w_pct and h_pct in 1..100, whatever JSON object the vision model returned.
C13_CoordinatesInRange ==
    \A i \in DOMAIN EmittedFocusMap :
       LET c == EmittedFocusMap[i].coord
       IN  /\ c.x_pct \in 0..100
           /\ c.y_pct \in 0..100
           /\ c.w_pct \in 1..100
           /\ c.h_pct \in 1..100

\* a box the model put outside the image is in the emitted FocusMap
C13_Witness ==
    \E i \in DOMAIN EmittedFocusMap : EmittedFocusMap[i].coord.x_pct > 100

\* the grounding calls started so far, as positions of the call log
GroundingCalls == {i \in DOMAIN calls : calls[i].fn = "_get_focus_coord"}

\* the grounding calls that have not come back
InFlight == {t \in DOMAIN results : results[t] = "pending"}

\* C14: within one request at most 3 grounding calls are started in total, at
\* most one per distinct frame index, and at no moment are more than 3 in flight.
C14_GroundingCallsBounded ==
    LET started == GroundingCalls
    IN  /\ Cardinality(started) <= 3
        /\ \A i, j \in started : calls[i].fi = calls[j].fi => i = j
        /\ Cardinality(InFlight) <= 3

\* three distinct frames in evidence, one of them on two nodes: three calls in flight
C14_Witness ==
    /\ Cardinality({captured_sources[i].frame_index : i \in DOMAIN captured_sources}) = 3
    /\ \E i, j \in DOMAIN captured_sources :
          i # j /\ captured_sources[i].frame_index = captured_sources[j].frame_index
    /\ Cardinality(InFlight) = 3

----------------------------------------------------------------------------
(* SpecCancel: the consumer goes away while the grounding calls are in flight *)

\* the consumer disconnects: CancelledError is thrown into the coroutine at the
\* await of line 305; it is no Exception, so the except of line 310 lets it pass
Cancel ==
    /\ pc = "pool"
    /\ pc' = "cancelling"
    /\ UNCHANGED ingest_vars
    /\ UNCHANGED <<endpoint, pinecone_index, google_key, namespace, out, oracle_tokens,
                   gen_pos, source_nodes, evidence_at_query, captured_sources, cited,
                   sources_marker, video_tasks, results, returned, coords_map, calls>>

\* the exception leaves the with block of line 304, whose exit is
\* pool.shutdown(wait=True): it returns when the worker running _get_focus_marker
\* has ended, which in turn leaves its own with block (line 239) only when every
\* grounding call has come back; nothing is yielded
ShutdownWait ==
    /\ pc = "cancelling"
    /\ \A i \in DOMAIN results : results[i] # "pending"
    /\ pc' = "cancelled"
    /\ UNCHANGED ingest_vars
    /\ UNCHANGED <<endpoint, pinecone_index, google_key, namespace, out, oracle_tokens,
                   gen_pos, source_nodes, evidence_at_query, captured_sources, cited,
                   sources_marker, video_tasks, results, returned, coords_map, calls>>

\* the coroutine at line 301 with the evidence lists of Spec
InitCancel ==
    /\ IngestNotStarted
    /\ pc = "focus"
    /\ endpoint = "query"
    /\ pinecone_index = TRUE
    /\ google_key = TRUE
    /\ namespace \in {"", "sap-pack"}
    /\ oracle_tokens = <<>>
    /\ gen_pos = 0
    /\ \E nodes \in SeqsUpTo(StreamNodes, MaxEvidence) :
          /\ source_nodes = [state |-> "list", nodes |-> nodes]
          /\ evidence_at_query = [state |-> "list", nodes |-> nodes]
          /\ captured_sources = nodes
          /\ cited = Diverse(nodes)
          /\ sources_marker = serialize_sources(nodes)
          /\ out = IF sources_marker # None THEN <<SourcesChunk(Val(sources_marker))>>
                   ELSE <<>>
          /\ calls = <<[fn |-> "_serialize_sources", arg |-> nodes, raised |-> FALSE]>>
    /\ video_tasks = <<>>
    /\ results = <<>>
    /\ returned = <<>>
    /\ coords_map = <<>>

NextCancel ==
    \/ FocusScan
    \/ GroundingReturns
    \/ FocusJoin
    \/ Cancel
    \/ ShutdownWait

SpecCancel == InitCancel /\ [][NextCancel]_vars

\* C15: when the request is cancelled while grounding calls are in flight, the
\* teardown does not wait for them: the coroutine can finish its cancellation
\* whether or not the worker has completed; and no focus marker is emitted after
\* the cancellation.
C15_CancelDoesNotWait ==
    /\ pc = "cancelling" => ENABLED ShutdownWait
    /\ pc \in {"cancelling", "cancelled"} => KindCount("focus") = 0

\* the request was cancelled and a grounding call has not come back
C15_Witness == pc = "cancelling" /\ InFlight # {}

----------------------------------------------------------------------------
(* SpecOrder: _serialize_sources on ranked lists with several score levels *)

\* four scores above the threshold and one below it, for each type
OrderNodes ==
    {Node(Some(s), t, None, <<>>) :
       s \in {9000, 8000, 5000, 4000, 2996},
       t \in {"unset", "video", "pdf_document", "jira_ticket"}}

InitOrder ==
    /\ pc = "sources"
    /\ namespace = "sap-pack"
    /\ \E nodes \in RankedLists(OrderNodes, MaxRanked) : AtSources(nodes)

NextOrder == SourcesMarker

SpecOrder == InitOrder /\ [][NextOrder]_vars

\* the number of types that have a qualifying node: the length of best_by_type
TypesPresent == Cardinality({TypeOrVideo(i) : i \in Qualifying})

\* C16 (as stated): with the survivors sorted by score descending, the scores of
\* the emitted citations are non-increasing from first to last.
C16_ScoresNonIncreasing ==
    \A i, j \in DOMAIN EmittedCitations :
       i < j => EmittedCitations[i].score >= EmittedCitations[j].score

\* C16 (amended): with the survivors sorted by score descending, the emitted
\* citations are the representatives of the types, one per type present,
\* followed by the fill nodes; the scores are non-increasing within the
\* representatives and within the fill nodes, and no citation has a higher
\* score than the first.
C16_NonIncreasingInEachPart ==
    /\ \A i, j \in DOMAIN EmittedCitations :
          (i < j /\ (j <= TypesPresent \/ i > TypesPresent))
             => EmittedCitations[i].score >= EmittedCitations[j].score
    /\ \A j \in DOMAIN EmittedCitations :
          EmittedCitations[1].score >= EmittedCitations[j].score
    /\ \A i, j \in DOMAIN EmittedCitations :
          (i < j /\ j <= TypesPresent) => TypeOrVideo(cited[i]) # TypeOrVideo(cited[j])

\* a fill node is cited after a representative with a lower score
C16_Witness ==
    /\ pc = "focus"
    /\ \E i, j \in DOMAIN EmittedCitations :
          /\ i <= TypesPresent /\ j > TypesPresent
          /\ EmittedCitations[i].score < EmittedCitations[j].score

----------------------------------------------------------------------------
(* The reference selection of the diversifier (SpecDiv) *)

\* for each type present among the survivors, the first survivor of that type
\* in the ranked list
Representatives ==
    LET survivors == Qualifying
    IN  {i \in survivors :
           \A j \in survivors : j < i => TypeOrVideo(j) # TypeOrVideo(i)}

\* the representatives plus the best ranked others until min(5, survivors) are held
ReferenceSelection ==
    LET survivors == Qualifying
        reps      == Representatives
        others    == survivors \ reps
        room      == (IF Cardinality(survivors) < 5 THEN Cardinality(survivors) ELSE 5)
                     - Cardinality(reps)
    IN  reps \cup {i \in others : Cardinality({j \in others : j < i}) < room}

\* C17: the set of cited nodes is the reference selection: for each type present
\* among the survivors its highest ranked survivor, plus the highest ranked
\* survivors not yet selected until min(5, number of survivors) nodes are held;
\* a node with no type counts as video.  Each selected node is cited once.
C17_CitedIsReferenceSelection ==
    pc = "focus" =>
       LET selected == Range(cited)
       IN  /\ selected = ReferenceSelection
           /\ Cardinality(selected) = Len(cited)
           /\ Len(EmittedCitations) = Len(cited)

\* six survivors of two types, one node without a type among them: one is left out
C17_Witness ==
    /\ pc = "focus"
    /\ Cardinality(Qualifying) = 6
    /\ Cardinality(Representatives) = 2
    /\ \E i \in Qualifying : captured_sources[i].type = "unset"
    /\ Cardinality(Range(cited)) = 5

----------------------------------------------------------------------------
(* Which frames are dispatched (SpecFocus) *)

\* the video nodes of the captured evidence that carry a frame index
VideoWithFrame ==
    {i \in DOMAIN captured_sources :
       /\ captured_sources[i].type \notin {"pdf_document", "jira_ticket"}
       /\ captured_sources[i].frame_index # None}

\* the first node that carries each distinct frame index, in evidence order
FirstCarriers ==
    {i \in VideoWithFrame :
       \A j \in VideoWithFrame :
          j < i => captured_sources[j].frame_index # captured_sources[i].frame_index}

\* the first n nodes of a set of positions
FirstOf(S, n) == {i \in S : Cardinality({j \in S : j < i}) < n}

\* the URL has a segment "frames" followed by a namespace segment and a file
UrlHasNamespace(url) ==
    \E k \in 1..(Len(url) - 2) : url[k] = "frames" /\ url[k + 1] # ""

\* the first carriers for which a namespace can be resolved
Resolvable ==
    {i \in FirstCarriers :
       UrlHasNamespace(captured_sources[i].frame_image_url) \/ namespace # ""}

\* the scan of _get_focus_marker has run to its end
Scanned ==
    \E i \in DOMAIN calls : calls[i].fn = "_get_focus_marker" /\ ~calls[i].raised

\* the nodes the tasks were made from
DispatchedNodes == {video_tasks[t].node : t \in DOMAIN video_tasks}

\* every frame index is dispatched at most once, for the node named by the task
DispatchedOnce ==
    /\ \A t \in DOMAIN video_tasks :
          captured_sources[video_tasks[t].node].frame_index = Some(video_tasks[t].fi)
    /\ \A t, u \in DOMAIN video_tasks : video_tasks[t].fi = video_tasks[u].fi => t = u

\* C18 (as stated): every dispatched frame is one of the first 3 distinct frame
\* indices, in evidence order, among the video nodes that carry a frame index,
\* dispatched at most once for the first node that carries it; a frame dropped
\* for want of a namespace is not replaced by a fourth or later distinct frame.
C18_OnlyFirstThreeFrames ==
    /\ DispatchedNodes \subseteq FirstOf(FirstCarriers, 3)
    /\ DispatchedOnce

\* C18 (amended): the dispatched frames are the first 3 distinct frame indices,
\* in evidence order, whose first carrying video node resolves a namespace, each
\* dispatched once for that node; a frame dropped for want of a namespace does
\* not count toward the 3, so a fourth or later distinct frame may take its place.
C18_FirstThreeResolvableFrames ==
    Scanned =>
       /\ DispatchedNodes = FirstOf(Resolvable, 3)
       /\ DispatchedOnce
       /\ Len(video_tasks) <= 3

\* the first frame was dropped and the fourth distinct frame is dispatched
C18_Witness ==
    /\ Scanned
    /\ FirstOf(FirstCarriers, 1) \ Resolvable # {}
    /\ DispatchedNodes \ FirstOf(FirstCarriers, 3) # {}
    /\ Len(video_tasks) = 3

----------------------------------------------------------------------------
(* SpecTypes: _get_focus_marker on evidence of every type *)

\* a video frame without a type and one of type video, PDF chunks and a Jira
\* ticket that carry a frame index, a video node that carries none
TypedNodes ==
    {Node(Some(9000), "unset", Some(1), <<"frames", "crm-pack", "1.jpg">>),
     Node(Some(9000), "video", Some(2), <<"frames", "crm-pack", "2.jpg">>),
     Node(Some(9000), "pdf_document", Some(1), <<>>),
     Node(Some(9000), "pdf_document", Some(3), <<>>),
     Node(Some(9000), "jira_ticket", Some(2), <<>>),
     Node(Some(9000), "unset", None, <<>>)}

\* the coroutine at line 301, as in InitFocus
InitTypes ==
    /\ IngestNotStarted
    /\ pc = "focus"
    /\ endpoint = "query"
    /\ pinecone_index = TRUE
    /\ google_key = TRUE
    /\ namespace \in {"", "sap-pack"}
    /\ oracle_tokens = <<>>
    /\ gen_pos = 0
    /\ \E nodes \in SeqsUpTo(TypedNodes, MaxTypedNodes) :
          /\ source_nodes = [state |-> "list", nodes |-> nodes]
          /\ evidence_at_query = [state |-> "list", nodes |-> nodes]
          /\ captured_sources = nodes
          /\ cited = Diverse(nodes)
          /\ sources_marker = serialize_sources(nodes)
          /\ out = IF sources_marker # None THEN <<SourcesChunk(Val(sources_marker))>>
                   ELSE <<>>
          /\ calls = <<[fn |-> "_serialize_sources", arg |-> nodes, raised |-> FALSE]>>
    /\ video_tasks = <<>>
    /\ results = <<>>
    /\ returned = <<>>
    /\ coords_map = <<>>

NextTypes ==
    \/ FocusScan
    \/ FocusRaises
    \/ GroundingReturns
    \/ FocusJoin

SpecTypes == InitTypes /\ [][NextTypes]_vars

\* the frame indices carried by the captured nodes of type video or of no type
VideoFrames ==
    {Val(captured_sources[i].frame_index) :
       i \in {j \in DOMAIN captured_sources :
                /\ captured_sources[j].type \in {"video", "unset"}
                /\ captured_sources[j].frame_index # None}}

\* the frame indices the grounding calls were made for
CalledFrames == {calls[i].fi : i \in GroundingCalls}

\* C19: every key of the emitted FocusMap is the frame index of a captured node
\* of type video or of no type; a frame index carried only by pdf_document or
\* jira_ticket nodes, and a node without frame index, never produce an entry or
\* a grounding call.
C19_KeysAreVideoFrames ==
    LET frames == VideoFrames
    IN  /\ \A k \in EmittedKeys : k \in frames
        /\ \A k \in CalledFrames : k \in frames
        /\ \A i \in DOMAIN coords_map : coords_map[i].frame_key \in frames

\* a PDF chunk carries a frame index no video node has, a node has no frame
\* index, and a FocusMap was emitted for a video frame
C19_Witness ==
    /\ \E i \in DOMAIN captured_sources :
          /\ captured_sources[i].type = "pdf_document"
          /\ captured_sources[i].frame_index # None
          /\ Val(captured_sources[i].frame_index) \notin VideoFrames
    /\ \E i \in DOMAIN captured_sources : captured_sources[i].frame_index = None
    /\ EmittedKeys # {}

\* the segment after the first "frames" that has a namespace segment and a file
\* after it
UrlNamespace(url) ==
    LET k == CHOOSE m \in 1..(Len(url) - 2) :
                /\ url[m] = "frames" /\ url[m + 1] # ""
                /\ \A l \in 1..(m - 1) : ~(url[l] = "frames" /\ url[l + 1] # "")
    IN  url[k + 1]

\* C20: the namespace of every dispatched frame is the one parsed from its node's
\* frame_image_url when the URL matches /frames/<namespace>/, and the caller's
\* namespace otherwise; a frame whose URL does not match while the caller's
\* namespace is empty is never dispatched and never in the FocusMap.
C20_NamespaceResolution ==
    /\ \A t \in DOMAIN video_tasks :
          LET url == captured_sources[video_tasks[t].node].frame_image_url
          IN  /\ video_tasks[t].ns =
                    (IF UrlHasNamespace(url) THEN UrlNamespace(url) ELSE namespace)
              /\ video_tasks[t].ns # ""
              /\ \E i \in GroundingCalls :
                    calls[i].fi = video_tasks[t].fi /\ calls[i].ns = video_tasks[t].ns
    /\ \A i \in FirstCarriers \ Resolvable :
          /\ i \notin DispatchedNodes
          /\ Val(captured_sources[i].frame_index) \notin (CalledFrames \cup EmittedKeys)

\* a frame whose URL names "frames" without a namespace segment went out under
\* the caller's namespace and is in the emitted FocusMap
C20_Witness ==
    /\ \E t \in DOMAIN video_tasks :
          /\ captured_sources[video_tasks[t].node].frame_image_url = <<"frames", "1.jpg">>
          /\ video_tasks[t].ns = namespace
    /\ EmittedKeys # {}

----------------------------------------------------------------------------
(* The error chunk of the outer except (Spec) *)

\* C21: a [System Error] chunk is emitted only when no answer could be obtained
\* at all: in a stream that contains one it is the only chunk, so it never
\* follows an answer token that was already emitted.
C21_ErrorChunkIsOnlyChunk ==
    \A i \in DOMAIN out :
       out[i].kind = "error" => (i = 1 /\ Len(out) = 1)

\* on the query endpoint an answer token was relayed and the error chunk follows it
C21_Witness ==
    /\ endpoint = "query"
    /\ pc = "done"
    /\ Len(out) = 2
    /\ out[1].kind = "token"
    /\ out[2].kind = "error"

----------------------------------------------------------------------------
(* SpecLive: a request whose coroutine and pool threads are always scheduled *)

\* the steps of the coroutine and of the thread running _get_focus_marker: the
\* event loop and the executor run them whenever they can be taken
CoroutineStep ==
    \/ ImgDecodeFails
    \/ ImgDecode
    \/ ImgKey
    \/ ImgVision
    \/ GetVectorStoreRaises
    \/ QueryRaises
    \/ Query
    \/ CaptureSources
    \/ RelayToken
    \/ Exhausted
    \/ TokenStreamFails
    \/ SourcesMarker
    \/ SourcesRaises
    \/ FocusScan
    \/ FocusRaises
    \/ FocusJoin

\* no fairness for GroundingReturns: model.generate_content (line 163) is called
\* without a timeout and pool.map (line 240) waits without one, so nothing in
\* the program makes a grounding call come back
SpecLive == Init /\ [][Next]_vars /\ WF_vars(CoroutineStep)

\* the same request when every vision call does answer
SpecLiveAnswered == SpecLive /\ WF_vars(GroundingReturns)

\* C22: provided the oracle's token stream ends, every stream eventually ends,
\* even if a vision-model call for some frame never returns.
C22_StreamEventuallyEnds == <>(pc = "done")

\* the tokens are relayed, the sources step is over and a grounding call is in flight
C22_Witness ==
    /\ pc = "pool"
    /\ gen_pos = Len(oracle_tokens)
    /\ \E t \in DOMAIN results : results[t] = "pending"

----------------------------------------------------------------------------
(* The evidence the two markers are computed from (SpecEvidence) *)

\* the request at line 293: the tokens are relayed, the captured evidence is any
\* short list of StreamNodes
InitEvidence ==
    /\ pc = "sources"
    /\ namespace \in {"", "sap-pack"}
    /\ \E nodes \in SeqsUpTo(StreamNodes, MaxEvidence) : AtSources(nodes)

NextEvidence ==
    \/ SourcesMarker
    \/ SourcesRaises
    \/ FocusScan
    \/ FocusRaises
    \/ GroundingReturns
    \/ FocusJoin

SpecEvidence == InitEvidence /\ [][NextEvidence]_vars

\* the evidence with every score removed
EraseScores(nodes) == [i \in DOMAIN nodes |-> [nodes[i] EXCEPT !.score = None]]

\* C23: the Focus Resolver works on the raw captured evidence and ignores scores
\* and the Diversifier's output: the frames it dispatches are those of the
\* captured list with its scores erased, whatever was cited.
C23_DispatchIgnoresScores ==
    Scanned => video_tasks = VideoTasks(EraseScores(captured_sources), namespace)

\* no captured node clears the threshold, the Diversifier returned no marker, and
\* the stream carries a focus marker and no sources marker
C23_Witness ==
    /\ pc = "done"
    /\ captured_sources # <<>>
    /\ \A i \in DOMAIN captured_sources :
          Val(captured_sources[i].score) < SOURCE_SCORE_THRESHOLD
    /\ \E i \in DOMAIN calls : calls[i].fn = "_serialize_sources" /\ ~calls[i].raised
    /\ \E i \in DOMAIN out : out[i].kind = "focus"
    /\ \A i \in DOMAIN out : out[i].kind # "sources"

----------------------------------------------------------------------------
(* ingest_endpoint, main.py lines 79-117: the progress stream of /api/ingest *)

\* most progress messages one ingestion reports
MaxMessages == 2

\* progress_queue.get(timeout=300), in steps of 100 seconds
GET_TIMEOUT == 3

\* messages process_ingestion hands to progress_cb (ingest.py lines 145, 203)
Msgs == {"Starting ingestion", "Frame described"}

\* line 97: the message put by the except clause
UnexpectedError == "Unexpected error"

\* f"{msg}\n"
Line(msg) == <<msg, "\n">>

\* line 109
DoneLine == <<"DONE", "\n">>

\* line 114
TimedOutLine == <<"Ingestion timed out.", "\n">>

\* no request to /api/chat or /api/analyze-image is being served
AgentIdle ==
    /\ endpoint = "query"
    /\ pinecone_index = TRUE
    /\ google_key = TRUE
    /\ namespace = ""
    /\ pc = "idle"
    /\ out = <<>>
    /\ oracle_tokens = <<>>
    /\ gen_pos = 0
    /\ source_nodes = [state |-> "none", nodes |-> <<>>]
    /\ evidence_at_query = [state |-> "none", nodes |-> <<>>]
    /\ captured_sources = <<>>
    /\ cited = <<>>
    /\ sources_marker = None
    /\ video_tasks = <<>>
    /\ results = <<>>
    /\ returned = <<>>
    /\ coords_map = <<>>
    /\ calls = <<>>

\* lines 86-117 of a request that passed the check of line 81: the queue is
\* empty, the thread is started and the response iterates stream_progress
InitIngest ==
    /\ AgentIdle
    /\ progress_queue = <<>>
    /\ thread = "running"
    /\ ingestion = "running"
    /\ stream = "get"
    /\ lines = <<>>
    /\ put_log = <<>>
    /\ waited = 0

\* a queue that hands out the newest item first
PutLifo(item) ==
    /\ progress_queue' = <<item>> \o progress_queue
    /\ put_log' = Append(put_log, item)

\* progress_queue.put(item) on the unbounded FIFO queue of line 86
Put(item) ==
    /\ progress_queue' = Append(progress_queue, item)
    /\ put_log' = Append(put_log, item)

\* ingest.py lines 140-143 with the progress_cb of main.py line 94
Progress ==
    /\ thread = "running"
    /\ Len(put_log) < MaxMessages
    /\ \E msg \in Msgs : Put(Some(msg))
    /\ UNCHANGED <<thread, ingestion, stream, lines, waited>>
    /\ UNCHANGED agent_vars

\* process_ingestion returns (True or False); the try block is left
IngestionReturns ==
    /\ thread = "running"
    /\ thread' = "finally"
    /\ ingestion' = "returned"
    /\ UNCHANGED <<progress_queue, put_log, stream, lines, waited>>
    /\ UNCHANGED agent_vars

\* lines 96-97: process_ingestion raises and the except clause reports it
IngestionRaises ==
    /\ thread = "running"
    /\ Put(Some(UnexpectedError))
    /\ thread' = "finally"
    /\ ingestion' = "raised"
    /\ UNCHANGED <<stream, lines, waited>>
    /\ UNCHANGED agent_vars

\* lines 98-99: the sentinel
PutSentinel ==
    /\ thread = "finally"
    /\ Put(None)
    /\ thread' = "finished"
    /\ UNCHANGED <<ingestion, stream, lines, waited>>
    /\ UNCHANGED agent_vars

\* lines 107-112: get returns a message; it is yielded as a line
GetMessage ==
    /\ stream = "get"
    /\ progress_queue # <<>>
    /\ Head(progress_queue) # None
    /\ lines' = Append(lines, Line(Val(Head(progress_queue))))
    /\ progress_queue' = Tail(progress_queue)
    /\ waited' = 0
    /\ UNCHANGED <<thread, ingestion, stream, put_log>>
    /\ UNCHANGED agent_vars

\* lines 107-110: get returns the sentinel
GetSentinel ==
    /\ stream = "get"
    /\ progress_queue # <<>>
    /\ Head(progress_queue) = None
    /\ lines' = Append(lines, DoneLine)
    /\ progress_queue' = Tail(progress_queue)
    /\ waited' = 0
    /\ stream' = "ended"
    /\ UNCHANGED <<thread, ingestion, put_log>>
    /\ UNCHANGED agent_vars

\* line 107: get stays blocked on the empty queue
Tick ==
    /\ stream = "get"
    /\ progress_queue = <<>>
    /\ waited < GET_TIMEOUT
    /\ waited' = waited + 1
    /\ UNCHANGED <<progress_queue, thread, ingestion, stream, lines, put_log>>
    /\ UNCHANGED agent_vars

\* lines 113-115: get raises queue.Empty after 300 seconds without an item
GetTimesOut ==
    /\ stream = "get"
    /\ progress_queue = <<>>
    /\ waited = GET_TIMEOUT
    /\ lines' = Append(lines, TimedOutLine)
    /\ stream' = "ended"
    /\ UNCHANGED <<progress_queue, thread, ingestion, put_log, waited>>
    /\ UNCHANGED agent_vars

NextIngest ==
    \/ Progress
    \/ IngestionReturns
    \/ IngestionRaises
    \/ PutSentinel
    \/ GetMessage
    \/ GetSentinel
    \/ Tick
    \/ GetTimesOut

SpecIngest == InitIngest /\ [][NextIngest]_vars

\* the messages put on the queue so far, in order
MessagesPut == SelectSeq(put_log, LAMBDA item : item # None)

\* a get of this stream waited 300 seconds without a message
Gap == waited = GET_TIMEOUT /\ stream = "ended"

\* C24: absent a 300-second gap, every progress message put on the queue is
\* emitted exactly once and in order, followed by exactly one DONE line that is
\* the last line, whether the ingestion returns or raises (then an Unexpected
\* error line precedes DONE); nothing follows DONE; after a 300-second wait
\* without a message the stream ends with the timed-out line and without DONE.
C24_ProgressStream ==
    LET msgs == MessagesPut
        k    == IF stream = "ended" THEN Len(lines) - 1 ELSE Len(lines)
    IN  /\ k <= Len(msgs)
        /\ \A i \in 1..k : lines[i] = Line(Val(msgs[i]))
        /\ \A i \in 1..k : lines[i] \notin {DoneLine, TimedOutLine}
        /\ stream = "ended" /\ ~Gap =>
              /\ k = Len(msgs)
              /\ lines[k + 1] = DoneLine
              /\ ingestion = "raised" => k >= 1 /\ lines[k] = Line(UnexpectedError)
              /\ ingestion = "returned" =>
                    \A i \in 1..k : lines[i] # Line(UnexpectedError)
        /\ Gap => lines[k + 1] = TimedOutLine

\* the ingestion raised after two messages and the stream ended with four lines
C24_Witness ==
    /\ stream = "ended"
    /\ ingestion = "raised"
    /\ ~Gap
    /\ Len(put_log) = 4
    /\ lines = <<Line(Val(put_log[1])), Line(Val(put_log[2])), Line(UnexpectedError), DoneLine>>

=============================================================================
